---- MODULE Spec2Model ----
(***************************************************************************)
(* Model of MQTTHealthChecker (mqtt_iot_healthcheck.py; mqtt_healthcheck.py *)
(* holds the same class): the topic registry, the arrival tracker guarded  *)
(* by self.lock, on_message and get_status_data as interleaved threads,    *)
(* and the average-interval formatter.                                     *)
(*                                                                         *)
(* Time is an integer number of milliseconds since the model's epoch,      *)
(* 2024-01-01 00:00:00 local time (datetime has microsecond resolution;    *)
(* every comparison and division of the code is done here exactly, on      *)
(* rationals, where the code uses binary floats).                          *)
(* Text is a sequence of one-character strings, so that formatting,        *)
(* suffixes and splitting are computed and not assumed.                    *)
(***************************************************************************)
EXTENDS Integers, Sequences, FiniteSets, TLC

VARIABLES
    topics_file,            \* the document self.topics_file names
    topics,                 \* self.topics: list of topic names
    topic_descriptions,     \* self.topic_descriptions: dict topic -> text
    topic_types,            \* self.topic_types: dict topic -> text
    topic_timestamps,       \* self.topic_timestamps: dict topic -> datetime
    topic_counters,         \* self.topic_counters: dict topic -> int
    topic_message_history,  \* self.topic_message_history: dict topic -> list
    lock,                   \* self.lock: the thread holding it, or Free
    clock,                  \* the latest value datetime.now() returned
    pc,                     \* each thread's position (source line about to run)
    w_topic,                \* on_message local: topic
    w_time,                 \* on_message local: current_time
    r_time,                 \* get_status_data local: current_time
    r_i,                    \* get_status_data: index of the for loop over self.topics
    status_data,            \* get_status_data local: status_data
    metrics,                \* what get_metrics answered last (line 297)
    log,                    \* history variable: per topic, the timestamps of the
                            \* on_message calls that left the with-block, in order
    returned,               \* what get_status_data returned last (line 170)
    nmsgs                   \* history variable: on_message calls started

registry == <<topics_file, topics, topic_descriptions, topic_types>>
tracker  == <<topic_timestamps, topic_counters, topic_message_history>>
wlocals  == <<w_topic, w_time>>
rlocals  == <<r_time, r_i, status_data, metrics>>
vars == <<topics_file, topics, topic_descriptions, topic_types, topic_timestamps,
          topic_counters, topic_message_history, lock, clock, pc, w_topic, w_time,
          r_time, r_i, status_data, metrics, log, nmsgs, returned>>

----------------------------------------------------------------------------
(* Units of time, in milliseconds *)
SECOND == 1000
MINUTE == 60 * SECOND
HOUR   == 60 * MINUTE
DAY    == 24 * HOUR

(* self.max_history_size *)
max_history_size == 100

(* timedelta(hours=1), the health threshold of get_status_data *)
HealthThreshold == 1 * HOUR

----------------------------------------------------------------------------
(* Bounds of the model *)
MaxMsgs     == 2      \* on_message calls started in Spec
LongMaxMsgs == 102    \* on_message calls started in LongSpec
AvgMaxLen   == 3      \* longest history drawn by AvgInit and MetricsInit
MetricsMaxMsgs == 1   \* on_message calls started in MetricsSpec
LoadMaxItems == 2     \* most items of a topics file drawn by LoadInit

Writers == {"w1", "w2"}
Readers == {"r1"}
Threads == Writers \cup Readers
Free    == "free"

(* The instants datetime.now() takes in Spec: around the one-hour threshold *)
ClockValues == {0, 1, HOUR, 2 * HOUR}

----------------------------------------------------------------------------
(* Text *)
Never  == <<"N", "e", "v", "e", "r">>
NoData == <<"N", "o", " ", "d", "a", "t", "a">>

TopicTemp == <<"s", "e", "n", "s", "o", "r", "s", "/", "t", "e", "m", "p", " ", "o", "n", "e">>
TopicDoor == <<"h", "u", "b", "-", "1", ".", "d", "o", "o", "r", ":", "u", "p">>
TopicOther == <<"x", "/", "y">>
DescDoor  == <<"D", "o", "o", "r">>

DigitChar(d) == <<"0", "1", "2", "3", "4", "5", "6", "7", "8", "9">>[d + 1]

RECURSIVE NatToText(_)
NatToText(n) == IF n < 10 THEN <<DigitChar(n)>>
                ELSE NatToText(n \div 10) \o <<DigitChar(n % 10)>>

(* %02d *)
Pad2(n) == IF n < 10 THEN <<"0">> \o NatToText(n) ELSE NatToText(n)

Abs(x) == IF x < 0 THEN -x ELSE x

(* dict helpers *)
EmptyDict == << >>
Put(d, k, v) == [x \in (DOMAIN d) \cup {k} |-> IF x = k THEN v ELSE d[x]]
Get(d, k, default) == IF k \in DOMAIN d THEN d[k] ELSE default

RECURSIVE SumSeq(_)
SumSeq(s) == IF s = << >> THEN 0 ELSE Head(s) + SumSeq(Tail(s))

----------------------------------------------------------------------------
(* Mutant of Format1f: the digits after the first decimal are cut off *)
Format1f_floor(num, den) ==
    LET tenths == Abs(num) \div (den \div 10)
    IN  (IF num < 0 THEN <<"-">> ELSE << >>)
        \o NatToText(tenths \div 10) \o <<".">> \o <<DigitChar(tenths % 10)>>

(* f"{x:.1f}" for x = num/den, den > 0 a multiple of 10: the nearest tenth, *)
(* a tie going to the even tenth, which is what the float formatting gives  *)
(* for the ties a float holds exactly (k + 0.25, k + 0.75); the timestamps  *)
(* from which the specifications below compute an average yield no other    *)
(* tie. A negative x keeps its sign, also when it rounds to 0.0.            *)
Format1f(num, den) ==
    LET a      == Abs(num)
        d10    == den \div 10
        q      == a \div d10
        r      == a % d10
        tenths == IF 2 * r > d10 \/ (2 * r = d10 /\ q % 2 = 1) THEN q + 1 ELSE q
    IN  (IF num < 0 THEN <<"-">> ELSE << >>)
        \o NatToText(tenths \div 10) \o <<".">> \o <<DigitChar(tenths % 10)>>

(* Mutant of strftime: '%Y-%m-%d %H:%M:%S.%f', the fraction is written too *)
strftime_fraction(t) ==
    LET day == t \div DAY
        s   == (t % DAY) \div SECOND
        ms  == t % SECOND
    IN  <<"2", "0", "2", "4", "-", "0", "1", "-">> \o Pad2(day + 1) \o <<" ">>
        \o Pad2(s \div 3600) \o <<":">> \o Pad2((s % 3600) \div 60) \o <<":">>
        \o Pad2(s % 60) \o <<".">> \o Pad2(ms \div 10) \o <<DigitChar(ms % 10)>>
        \o <<"0", "0", "0">>

(* datetime.strftime('%Y-%m-%d %H:%M:%S'): the fraction of a second is dropped *)
strftime(t) ==
    LET day == t \div DAY
        s   == (t % DAY) \div SECOND
    IN  <<"2", "0", "2", "4", "-", "0", "1", "-">> \o Pad2(day + 1) \o <<" ">>
        \o Pad2(s \div 3600) \o <<":">> \o Pad2((s % 3600) \div 60) \o <<":">>
        \o Pad2(s % 60)

(* str(timedelta).split('.')[0]: timedelta normalises to days (any sign) and *)
(* 0 <= seconds < 86400; str gives "[D day[s], ]H:MM:SS[.ffffff]" and the    *)
(* split drops the fraction.                                                *)
timedelta_str_split(td) ==
    LET days == td \div DAY
        s    == (td % DAY) \div SECOND
        head == IF days = 0 THEN << >>
                ELSE (IF days < 0 THEN <<"-">> ELSE << >>) \o NatToText(Abs(days))
                     \o <<" ", "d", "a", "y">>
                     \o (IF Abs(days) # 1 THEN <<"s">> ELSE << >>) \o <<",", " ">>
    IN  head \o NatToText(s \div 3600) \o <<":">> \o Pad2((s % 3600) \div 60)
        \o <<":">> \o Pad2(s % 60)

----------------------------------------------------------------------------
(* Reading text back, as get_metrics does.  A conversion that can fail      *)
(* gives [ok |-> FALSE] where the code raises ValueError.                   *)
Digits == {"0", "1", "2", "3", "4", "5", "6", "7", "8", "9"}

DigitValue(c) == CHOOSE d \in 0..9 : DigitChar(d) = c

RECURSIVE TextToNat(_)
TextToNat(text) ==
    IF text = << >> THEN 0
    ELSE 10 * TextToNat(SubSeq(text, 1, Len(text) - 1)) + DigitValue(text[Len(text)])

AllDigits(text) == text # << >> /\ \A i \in 1..Len(text) : text[i] \in Digits

(* str.endswith, and the slice [:-1] *)
endswith(text, c) == text # << >> /\ text[Len(text)] = c
but_last(text)    == SubSeq(text, 1, Len(text) - 1)

(* datetime.strptime(text, '%Y-%m-%d %H:%M:%S'): the fields are read from   *)
(* the zero-padded layout strftime writes; text of another layout, or with  *)
(* a field out of range, is a ValueError.  The value is in milliseconds     *)
(* since the model's epoch, for a date of its month.                        *)
strptime(text) ==
    LET field(a, b) == SubSeq(text, a, b)
        layout == /\ Len(text) = 19
                  /\ text[5] = "-" /\ text[8] = "-" /\ text[11] = " "
                  /\ text[14] = ":" /\ text[17] = ":"
                  /\ \A i \in (1..19) \ {5, 8, 11, 14, 17} : text[i] \in Digits
        year   == TextToNat(field(1, 4))
        month  == TextToNat(field(6, 7))
        day    == TextToNat(field(9, 10))
        hour   == TextToNat(field(12, 13))
        minute == TextToNat(field(15, 16))
        second == TextToNat(field(18, 19))
    IN  IF layout /\ year >= 1 /\ month \in 1..12 /\ day \in 1..31 /\ hour < 24
               /\ minute < 60 /\ second < 62
        THEN [ok |-> TRUE,
              value |-> (day - 1) * DAY + hour * HOUR + minute * MINUTE + second * SECOND]
        ELSE [ok |-> FALSE, value |-> 0]

(* float(text) for the literals "[-]digits.digit": the value in tenths and  *)
(* whether the sign is minus (float keeps -0.0); any other text is a        *)
(* ValueError.                                                              *)
float(text) ==
    LET neg  == text # << >> /\ text[1] = "-"
        body == IF neg THEN Tail(text) ELSE text
        n    == Len(body)
    IN  IF n >= 3 /\ body[n - 1] = "." /\ body[n] \in Digits /\ AllDigits(SubSeq(body, 1, n - 2))
        THEN [ok |-> TRUE,
              tenths |-> (IF neg THEN -1 ELSE 1)
                         * (10 * TextToNat(SubSeq(body, 1, n - 2)) + DigitValue(body[n]))]
        ELSE [ok |-> FALSE, tenths |-> 0]

(* datetime.timestamp() of the model's epoch, 2024-01-01 00:00:00 (UTC taken *)
(* as the local zone), in seconds                                            *)
EpochTimestamp == 1704067200

----------------------------------------------------------------------------
(* Mutant of calculate_average_interval: the total is divided by the number *)
(* of timestamps, not of intervals.                                         *)
calculate_average_interval_per_entry(history, topic) ==
    IF topic \notin DOMAIN history THEN NoData
    ELSE
    LET timestamps == history[topic] IN
    IF Len(timestamps) < 2 THEN NoData
    ELSE
    LET intervals == [i \in 1..(Len(timestamps) - 1) |-> timestamps[i + 1] - timestamps[i]]
        n         == Len(timestamps)
        total     == SumSeq(intervals)
    IN  IF total \div n < 60 * SECOND         THEN Format1f(total, n * SECOND) \o <<"s">>
        ELSE IF total \div n < 3600 * SECOND  THEN Format1f(total, n * MINUTE) \o <<"m">>
        ELSE IF total \div n < 86400 * SECOND THEN Format1f(total, n * HOUR) \o <<"h">>
        ELSE Format1f(total, n * DAY) \o <<"d">>

(* Mutant of calculate_average_interval: the unit ranges are closed above    *)
(* (<= 60, <= 3600, <= 86400).                                              *)
calculate_average_interval_closed(history, topic) ==
    IF topic \notin DOMAIN history THEN NoData
    ELSE
    LET timestamps == history[topic] IN
    IF Len(timestamps) < 2 THEN NoData
    ELSE
    LET intervals == [i \in 1..(Len(timestamps) - 1) |-> timestamps[i + 1] - timestamps[i]]
        n         == Len(intervals)
        total     == SumSeq(intervals)
    IN  IF total <= 60 * SECOND * n         THEN Format1f(total, n * SECOND) \o <<"s">>
        ELSE IF total <= 3600 * SECOND * n  THEN Format1f(total, n * MINUTE) \o <<"m">>
        ELSE IF total <= 86400 * SECOND * n THEN Format1f(total, n * HOUR) \o <<"h">>
        ELSE Format1f(total, n * DAY) \o <<"d">>

(* MQTTHealthChecker._calculate_average_interval.  avg_seconds is the       *)
(* rational total / (n * SECOND); avg_seconds < B is decided as             *)
(* floor(total / n) < B * SECOND, which is the same for an integer bound.   *)
calculate_average_interval(history, topic) ==
    IF topic \notin DOMAIN history THEN NoData
    ELSE
    LET timestamps == history[topic] IN
    IF Len(timestamps) < 2 THEN NoData
    ELSE
    LET intervals == [i \in 1..(Len(timestamps) - 1) |-> timestamps[i + 1] - timestamps[i]]
        n         == Len(intervals)
        total     == SumSeq(intervals)
    IN  IF n = 0 THEN NoData
        ELSE IF total \div n < 60 * SECOND    THEN Format1f(total, n * SECOND) \o <<"s">>
        ELSE IF total \div n < 3600 * SECOND  THEN Format1f(total, n * MINUTE) \o <<"m">>
        ELSE IF total \div n < 86400 * SECOND THEN Format1f(total, n * HOUR) \o <<"h">>
        ELSE Format1f(total, n * DAY) \o <<"d">>

----------------------------------------------------------------------------
(* The topics file.  state: "missing" (open raises FileNotFoundError),      *)
(* "malformed" (json.load raises JSONDecodeError) or "ok"; items is         *)
(* config['topics'].  An item is a bare string (kind "str") or an object    *)
(* (kind "dict") whose absent keys read as the empty text, as item.get does.*)
TypeBinary  == <<"b", "i", "n", "a", "r", "y">>
TypeUnknown == <<"u", "n", "k", "n", "o", "w", "n">>

StrItem(t)         == [kind |-> "str", topic |-> t, description |-> << >>, type |-> << >>]
DictItem(t, d, ty) == [kind |-> "dict", topic |-> t, description |-> d, type |-> ty]

DocMissing   == [state |-> "missing", items |-> << >>]
DocMalformed == [state |-> "malformed", items |-> << >>]
DocTopics    == [state |-> "ok",
                 items |-> << StrItem(TopicTemp),
                              DictItem(<< >>, DescDoor, << >>),
                              DictItem(TopicDoor, DescDoor, TypeBinary) >>]
Documents == {DocMissing, DocMalformed, DocTopics}

EmptyRegistry == [topics |-> << >>, topic_descriptions |-> EmptyDict, topic_types |-> EmptyDict]

(* The for loop of load_topics over topics_data *)
RECURSIVE load_items(_, _)
load_items(items, reg) ==
    IF items = << >> THEN reg
    ELSE
    LET item == Head(items)
        next ==
            IF item.kind = "str" THEN [reg EXCEPT !.topics = Append(@, item.topic)]
            ELSE IF item.kind = "dict" /\ item.topic # << >> THEN
                [topics |-> Append(reg.topics, item.topic),
                 topic_descriptions |->
                     IF item.description # << >>
                     THEN Put(reg.topic_descriptions, item.topic, item.description)
                     ELSE reg.topic_descriptions,
                 topic_types |->
                     IF item.type # << >>
                     THEN Put(reg.topic_types, item.topic, item.type)
                     ELSE reg.topic_types]
            ELSE reg
    IN  load_items(Tail(items), next)

(* MQTTHealthChecker.load_topics *)
load_topics(doc) ==
    IF doc.state = "ok" THEN load_items(doc.items, EmptyRegistry)
    ELSE EmptyRegistry

(* Documents that json.load accepts and load_topics does not expect: the    *)
(* top level is not an object (a list, a string, null), so config.get at    *)
(* line 41 raises AttributeError; or 'topics' is null or a number, so the   *)
(* for statement at line 47 raises TypeError.  An item that is neither a    *)
(* string nor an object (kind "other") matches no branch of the loop.       *)
DocNotObject  == [state |-> "not_object", items |-> << >>]
DocTopicsNull == [state |-> "topics_null", items |-> << >>]
OtherItem     == [kind |-> "other", topic |-> << >>, description |-> << >>, type |-> << >>]

(* The exception that leaves load_topics: only FileNotFoundError (line 64)  *)
(* and json.JSONDecodeError (line 70) are caught                            *)
load_topics_raises(doc) ==
    IF doc.state = "not_object" THEN "AttributeError"
    ELSE IF doc.state = "topics_null" THEN "TypeError"
    ELSE "none"

----------------------------------------------------------------------------
(* Mutant of status_entry: healthy up to and including one hour *)
status_entry_inclusive(topic, current_time) ==
    LET seen      == topic \in DOMAIN topic_timestamps
        time_diff == IF seen THEN current_time - topic_timestamps[topic] ELSE 0
        status    == IF ~seen THEN "never_seen"
                     ELSE IF time_diff <= HealthThreshold THEN "healthy"
                     ELSE "unhealthy"
    IN  [topic         |-> topic,
         display_name  |-> Get(topic_descriptions, topic, topic),
         type          |-> Get(topic_types, topic, TypeUnknown),
         last_seen     |-> IF seen THEN strftime(topic_timestamps[topic]) ELSE Never,
         time_since    |-> IF seen /\ time_diff # 0 THEN timedelta_str_split(time_diff)
                           ELSE Never,
         message_count |-> Get(topic_counters, topic, 0),
         avg_interval  |-> calculate_average_interval(topic_message_history, topic),
         status        |-> status]

(* Mutant of status_entry: a topic with no history gets an average of zero *)
status_entry_zero_average(topic, current_time) ==
    LET seen      == topic \in DOMAIN topic_timestamps
        time_diff == IF seen THEN current_time - topic_timestamps[topic] ELSE 0
        status    == IF ~seen THEN "never_seen"
                     ELSE IF time_diff < HealthThreshold THEN "healthy"
                     ELSE "unhealthy"
    IN  [topic         |-> topic,
         display_name  |-> Get(topic_descriptions, topic, topic),
         type          |-> Get(topic_types, topic, TypeUnknown),
         last_seen     |-> IF seen THEN strftime(topic_timestamps[topic]) ELSE Never,
         time_since    |-> IF seen /\ time_diff # 0 THEN timedelta_str_split(time_diff)
                           ELSE Never,
         message_count |-> Get(topic_counters, topic, 0),
         avg_interval  |-> IF topic \in DOMAIN topic_message_history
                           THEN calculate_average_interval(topic_message_history, topic)
                           ELSE Format1f(0, SECOND) \o <<"s">>,
         status        |-> status]

(* One iteration of the for loop of get_status_data: the entry appended for *)
(* `topic`, read from the tracker as it is in the current state.            *)
status_entry(topic, current_time) ==
    LET seen      == topic \in DOMAIN topic_timestamps
        time_diff == IF seen THEN current_time - topic_timestamps[topic] ELSE 0
        status    == IF ~seen THEN "never_seen"
                     ELSE IF time_diff < HealthThreshold THEN "healthy"
                     ELSE "unhealthy"
    IN  [topic         |-> topic,
         display_name  |-> Get(topic_descriptions, topic, topic),
         type          |-> Get(topic_types, topic, TypeUnknown),
         last_seen     |-> IF seen THEN strftime(topic_timestamps[topic]) ELSE Never,
         \* `if time_diff`: None and timedelta(0) are both false
         time_since    |-> IF seen /\ time_diff # 0 THEN timedelta_str_split(time_diff)
                           ELSE Never,
         message_count |-> Get(topic_counters, topic, 0),
         avg_interval  |-> calculate_average_interval(topic_message_history, topic),
         status        |-> status]

----------------------------------------------------------------------------
(* get_metrics, lines 234-297.  A line of the document is a record: the     *)
(* HELP and TYPE comments carry the metric's name, a sample carries the     *)
(* name, the text between the braces and the number after them.  The        *)
(* number is in seconds for mqtt_topic_last_seen_timestamp and in           *)
(* milliseconds for mqtt_topic_avg_interval_seconds (the code writes a      *)
(* float of seconds).                                                       *)
Comment(kind, name) == [kind |-> kind, name |-> name, labels |-> << >>, value |-> 0]

(* lines 237-244 *)
metrics_header ==
    << Comment("HELP", "mqtt_topic_last_seen_timestamp"),
       Comment("TYPE", "mqtt_topic_last_seen_timestamp"),
       Comment("HELP", "mqtt_topic_message_count"),
       Comment("TYPE", "mqtt_topic_message_count"),
       Comment("HELP", "mqtt_topic_healthy"),
       Comment("TYPE", "mqtt_topic_healthy"),
       Comment("HELP", "mqtt_topic_avg_interval_seconds"),
       Comment("TYPE", "mqtt_topic_avg_interval_seconds") >>

(* line 251: topic.replace('/', '_').replace('-', '_').replace('.', '_')    *)
(*                .replace(':', '_').replace(' ', '_')                      *)
safe_topic(topic) ==
    [i \in 1..Len(topic) |-> IF topic[i] \in {"/", "-", ".", ":", " "} THEN "_" ELSE topic[i]]

(* line 278: f'topic="{topic}",display_name="{display_name}",type="{topic_type}"' *)
labels(topic, display_name, topic_type) ==
    <<"t", "o", "p", "i", "c", "=", "\"">> \o topic
    \o <<"\"", ",", "d", "i", "s", "p", "l", "a", "y", "_", "n", "a", "m", "e", "=", "\"">>
    \o display_name
    \o <<"\"", ",", "t", "y", "p", "e", "=", "\"">> \o topic_type \o <<"\"">>

(* Mutant of topic_metrics: the average is emitted when it is not negative *)
topic_metrics_nonnegative(topic_data) ==
    LET topic        == topic_data.topic
        safe         == safe_topic(topic)        \* assigned at line 251, read nowhere
        seen         == topic_data.last_seen # Never
        last_seen_dt == strptime(topic_data.last_seen)
        last_seen_timestamp ==
            IF seen THEN EpochTimestamp + last_seen_dt.value \div SECOND ELSE 0
        avg_interval_str == topic_data.avg_interval
        unit == IF avg_interval_str = NoData THEN 0
                ELSE IF endswith(avg_interval_str, "s") THEN SECOND
                ELSE IF endswith(avg_interval_str, "m") THEN MINUTE
                ELSE IF endswith(avg_interval_str, "h") THEN HOUR
                ELSE IF endswith(avg_interval_str, "d") THEN DAY
                ELSE 0
        number == float(but_last(avg_interval_str))
        avg_interval_seconds == IF unit = 0 THEN 0 ELSE number.tenths * (unit \div 10)
        text == labels(topic, topic_data.display_name, topic_data.type)
        sample(name, value) ==
            [kind |-> "sample", name |-> name, labels |-> text, value |-> value]
    IN  IF (seen /\ ~last_seen_dt.ok) \/ (unit # 0 /\ ~number.ok)
        THEN [raised |-> TRUE, lines |-> << >>]
        ELSE [raised |-> FALSE,
              lines |->
                  << sample("mqtt_topic_last_seen_timestamp", last_seen_timestamp),
                     sample("mqtt_topic_message_count", topic_data.message_count),
                     sample("mqtt_topic_healthy",
                            IF topic_data.status = "healthy" THEN 1 ELSE 0) >>
                  \o (IF avg_interval_seconds >= 0
                      THEN <<sample("mqtt_topic_avg_interval_seconds", avg_interval_seconds)>>
                      ELSE << >>)]

(* lines 249-292: the lines one entry of status_data adds, or raised when a *)
(* conversion raises                                                        *)
topic_metrics(topic_data) ==
    LET topic        == topic_data.topic
        safe         == safe_topic(topic)        \* assigned at line 251, read nowhere
        seen         == topic_data.last_seen # Never
        last_seen_dt == strptime(topic_data.last_seen)
        last_seen_timestamp ==
            IF seen THEN EpochTimestamp + last_seen_dt.value \div SECOND ELSE 0
        avg_interval_str == topic_data.avg_interval
        unit == IF avg_interval_str = NoData THEN 0
                ELSE IF endswith(avg_interval_str, "s") THEN SECOND
                ELSE IF endswith(avg_interval_str, "m") THEN MINUTE
                ELSE IF endswith(avg_interval_str, "h") THEN HOUR
                ELSE IF endswith(avg_interval_str, "d") THEN DAY
                ELSE 0
        number == float(but_last(avg_interval_str))
        avg_interval_seconds == IF unit = 0 THEN 0 ELSE number.tenths * (unit \div 10)
        text == labels(topic, topic_data.display_name, topic_data.type)
        sample(name, value) ==
            [kind |-> "sample", name |-> name, labels |-> text, value |-> value]
    IN  IF (seen /\ ~last_seen_dt.ok) \/ (unit # 0 /\ ~number.ok)
        THEN [raised |-> TRUE, lines |-> << >>]
        ELSE [raised |-> FALSE,
              lines |->
                  << sample("mqtt_topic_last_seen_timestamp", last_seen_timestamp),
                     sample("mqtt_topic_message_count", topic_data.message_count),
                     sample("mqtt_topic_healthy",
                            IF topic_data.status = "healthy" THEN 1 ELSE 0) >>
                  \o (IF avg_interval_seconds > 0
                      THEN <<sample("mqtt_topic_avg_interval_seconds", avg_interval_seconds)>>
                      ELSE << >>)]

(* line 248: for topic_data in status_data *)
RECURSIVE metrics_loop(_, _)
metrics_loop(data, metrics_lines) ==
    IF data = << >> THEN [raised |-> FALSE, lines |-> metrics_lines]
    ELSE LET m == topic_metrics(Head(data))
         IN  IF m.raised THEN [raised |-> TRUE, lines |-> << >>]
             ELSE metrics_loop(Tail(data), metrics_lines \o m.lines)

(* lines 234-297: the document built from what get_status_data returned *)
metrics_content(data) == metrics_loop(data, metrics_header)

----------------------------------------------------------------------------
(* Topics on which messages arrive: the subscribed ones and one that is not *)
ArrivalTopics == {TopicTemp, TopicOther}

NoTopic == << >>

(* No /metrics request has been answered yet *)
NoResponse == [raised |-> FALSE, lines |-> << >>]

(* State after __init__: empty tracker, registry loaded from the document *)
InitWith(doc) ==
    /\ topics_file = doc
    /\ topics = load_topics(doc).topics
    /\ topic_descriptions = load_topics(doc).topic_descriptions
    /\ topic_types = load_topics(doc).topic_types
    /\ topic_timestamps = EmptyDict
    /\ topic_counters = EmptyDict
    /\ topic_message_history = EmptyDict
    /\ lock = Free
    /\ clock = 0
    /\ pc = [t \in Threads |-> "idle"]
    /\ w_topic = [w \in Writers |-> NoTopic]
    /\ w_time = [w \in Writers |-> 0]
    /\ r_time = [r \in Readers |-> 0]
    /\ r_i = [r \in Readers |-> 0]
    /\ status_data = [r \in Readers |-> << >>]
    /\ metrics = [r \in Readers |-> NoResponse]
    /\ log = [t \in ArrivalTopics |-> << >>]
    /\ nmsgs = 0
    /\ returned = [r \in Readers |-> << >>]

Init == \E doc \in Documents : InitWith(doc)

----------------------------------------------------------------------------
(* on_message, one action per statement *)

(* datetime.now() returns t: the time of day never goes back *)
now(t) ==
    /\ t >= clock
    /\ clock' = t

(* lines 101-102: topic = msg.topic; current_time = datetime.now() *)
on_message_enter(w, topic, t) ==
    /\ pc[w] = "idle"
    /\ now(t)
    /\ w_topic' = [w_topic EXCEPT ![w] = topic]
    /\ w_time' = [w_time EXCEPT ![w] = t]
    /\ pc' = [pc EXCEPT ![w] = "L104"]
    /\ nmsgs' = nmsgs + 1
    /\ UNCHANGED <<registry, tracker, lock, rlocals, log, returned>>

(* line 104: with self.lock (blocks while another thread holds it) *)
on_message_lock(w) ==
    /\ pc[w] = "L104"
    /\ lock = Free
    /\ lock' = w
    /\ pc' = [pc EXCEPT ![w] = "L105"]
    /\ UNCHANGED <<registry, tracker, clock, wlocals, rlocals, log, nmsgs, returned>>

(* Mutant of on_message_timestamp: only a topic's first arrival is stamped *)
on_message_timestamp_first(w) ==
    /\ pc[w] = "L105"
    /\ topic_timestamps' = IF w_topic[w] \in DOMAIN topic_timestamps THEN topic_timestamps
                           ELSE Put(topic_timestamps, w_topic[w], w_time[w])
    /\ pc' = [pc EXCEPT ![w] = "L106"]
    /\ UNCHANGED <<registry, topic_counters, topic_message_history, lock, clock,
                   wlocals, rlocals, log, nmsgs, returned>>

(* Mutant of on_message_timestamp: line 105 stores the latest clock reading *)
on_message_timestamp_now(w) ==
    /\ pc[w] = "L105"
    /\ topic_timestamps' = Put(topic_timestamps, w_topic[w], clock)
    /\ pc' = [pc EXCEPT ![w] = "L106"]
    /\ UNCHANGED <<registry, topic_counters, topic_message_history, lock, clock,
                   wlocals, rlocals, log, nmsgs, returned>>

(* line 105: self.topic_timestamps[topic] = current_time *)
on_message_timestamp(w) ==
    /\ pc[w] = "L105"
    /\ topic_timestamps' = Put(topic_timestamps, w_topic[w], w_time[w])
    /\ pc' = [pc EXCEPT ![w] = "L106"]
    /\ UNCHANGED <<registry, topic_counters, topic_message_history, lock, clock,
                   wlocals, rlocals, log, nmsgs, returned>>

(* Mutant of on_message_count: the counter is written without reading it *)
on_message_count_overwrite(w) ==
    /\ pc[w] = "L106"
    /\ topic_counters' = Put(topic_counters, w_topic[w], 1)
    /\ pc' = [pc EXCEPT ![w] = "L109"]
    /\ UNCHANGED <<registry, topic_timestamps, topic_message_history, lock, clock,
                   wlocals, rlocals, log, nmsgs, returned>>

(* line 106: self.topic_counters[topic] = self.topic_counters.get(topic, 0) + 1 *)
on_message_count(w) ==
    /\ pc[w] = "L106"
    /\ topic_counters' = Put(topic_counters, w_topic[w], Get(topic_counters, w_topic[w], 0) + 1)
    /\ pc' = [pc EXCEPT ![w] = "L109"]
    /\ UNCHANGED <<registry, topic_timestamps, topic_message_history, lock, clock,
                   wlocals, rlocals, log, nmsgs, returned>>

(* Mutant of on_message_history_init: the first message of a topic replaces  *)
(* the whole dict by one holding that topic only                            *)
on_message_history_init_reset(w) ==
    /\ pc[w] = "L109"
    /\ topic_message_history' =
           IF w_topic[w] \notin DOMAIN topic_message_history
           THEN Put(EmptyDict, w_topic[w], << >>)
           ELSE topic_message_history
    /\ pc' = [pc EXCEPT ![w] = "L112"]
    /\ UNCHANGED <<registry, topic_timestamps, topic_counters, lock, clock,
                   wlocals, rlocals, log, nmsgs, returned>>

(* lines 109-110: if topic not in self.topic_message_history: ... = [] *)
on_message_history_init(w) ==
    /\ pc[w] = "L109"
    /\ topic_message_history' =
           IF w_topic[w] \notin DOMAIN topic_message_history
           THEN Put(topic_message_history, w_topic[w], << >>)
           ELSE topic_message_history
    /\ pc' = [pc EXCEPT ![w] = "L112"]
    /\ UNCHANGED <<registry, topic_timestamps, topic_counters, lock, clock,
                   wlocals, rlocals, log, nmsgs, returned>>

(* line 112: self.topic_message_history[topic].append(current_time) *)
on_message_append(w) ==
    /\ pc[w] = "L112"
    /\ topic_message_history' =
           [topic_message_history EXCEPT ![w_topic[w]] = Append(@, w_time[w])]
    /\ pc' = [pc EXCEPT ![w] = "L115"]
    /\ UNCHANGED <<registry, topic_timestamps, topic_counters, lock, clock,
                   wlocals, rlocals, log, nmsgs, returned>>

(* Mutant of trim_history: the history is never cut *)
trim_history_never(h) == h

(* Mutant of trim_history: history[:max_history_size], the oldest entries kept *)
trim_history_oldest(h) ==
    IF Len(h) > max_history_size THEN SubSeq(h, 1, max_history_size) ELSE h

(* lines 115-116: keep history[-max_history_size:] when it is longer *)
trim_history(h) ==
    IF Len(h) > max_history_size
    THEN SubSeq(h, Len(h) - max_history_size + 1, Len(h))
    ELSE h

on_message_trim(w) ==
    /\ pc[w] = "L115"
    /\ topic_message_history' =
           [topic_message_history EXCEPT ![w_topic[w]] = trim_history(@)]
    /\ pc' = [pc EXCEPT ![w] = "L117"]
    /\ UNCHANGED <<registry, topic_timestamps, topic_counters, lock, clock,
                   wlocals, rlocals, log, nmsgs, returned>>

(* end of the with block: the lock is released; the recording is complete *)
on_message_unlock(w) ==
    /\ pc[w] = "L117"
    /\ lock' = Free
    /\ log' = [log EXCEPT ![w_topic[w]] = Append(@, w_time[w])]
    /\ pc' = [pc EXCEPT ![w] = "L118"]
    /\ UNCHANGED <<registry, tracker, clock, wlocals, rlocals, nmsgs, returned>>

(* line 118: print(...), then the callback returns *)
on_message_print(w) ==
    /\ pc[w] = "L118"
    /\ pc' = [pc EXCEPT ![w] = "idle"]
    /\ w_topic' = [w_topic EXCEPT ![w] = NoTopic]
    /\ w_time' = [w_time EXCEPT ![w] = 0]
    /\ UNCHANGED <<registry, tracker, lock, clock, rlocals, log, nmsgs, returned>>

(* The steps of a started on_message call *)
on_message_step(w) ==
    \/ on_message_lock(w)
    \/ on_message_timestamp(w)
    \/ on_message_count(w)
    \/ on_message_history_init(w)
    \/ on_message_append(w)
    \/ on_message_trim(w)
    \/ on_message_unlock(w)
    \/ on_message_print(w)

----------------------------------------------------------------------------
(* get_status_data *)

(* lines 138-139: current_time = datetime.now(); status_data = [] *)
get_status_data_enter(r) ==
    /\ pc[r] = "idle"
    /\ \E t \in ClockValues \cup {clock} :
           /\ now(t)
           /\ r_time' = [r_time EXCEPT ![r] = t]
    /\ r_i' = [r_i EXCEPT ![r] = 1]
    /\ status_data' = [status_data EXCEPT ![r] = << >>]
    /\ pc' = [pc EXCEPT ![r] = "L141"]
    /\ UNCHANGED <<registry, tracker, lock, wlocals, metrics, log, nmsgs, returned>>

(* Mutant of get_status_data_lock: the query reads without waiting for the lock *)
get_status_data_lock_nowait(r) ==
    /\ pc[r] = "L141"
    /\ lock' = r
    /\ pc' = [pc EXCEPT ![r] = "L142"]
    /\ UNCHANGED <<registry, tracker, clock, wlocals, rlocals, log, nmsgs, returned>>

(* line 141: with self.lock *)
get_status_data_lock(r) ==
    /\ pc[r] = "L141"
    /\ lock = Free
    /\ lock' = r
    /\ pc' = [pc EXCEPT ![r] = "L142"]
    /\ UNCHANGED <<registry, tracker, clock, wlocals, rlocals, log, nmsgs, returned>>

(* Mutant of get_status_data_loop: _calculate_average_interval takes the     *)
(* lock itself, which its caller already holds                              *)
get_status_data_loop_relock(r) ==
    /\ pc[r] = "L142"
    /\ r_i[r] <= Len(topics)
    /\ lock = Free
    /\ status_data' = [status_data EXCEPT
                          ![r] = Append(@, status_entry(topics[r_i[r]], r_time[r]))]
    /\ r_i' = [r_i EXCEPT ![r] = @ + 1]
    /\ UNCHANGED <<registry, tracker, lock, clock, pc, wlocals, r_time, metrics, log,
                   nmsgs, returned>>

(* Mutant of get_status_data_loop: reading the history of a topic creates    *)
(* an empty one when there is none (as setdefault would)                    *)
get_status_data_loop_setdefault(r) ==
    /\ pc[r] = "L142"
    /\ r_i[r] <= Len(topics)
    /\ status_data' = [status_data EXCEPT
                          ![r] = Append(@, status_entry(topics[r_i[r]], r_time[r]))]
    /\ r_i' = [r_i EXCEPT ![r] = @ + 1]
    /\ topic_message_history' =
           IF topics[r_i[r]] \in DOMAIN topic_message_history
           THEN topic_message_history
           ELSE Put(topic_message_history, topics[r_i[r]], << >>)
    /\ UNCHANGED <<registry, topic_timestamps, topic_counters, lock, clock, pc, wlocals,
                   r_time, metrics, log, nmsgs, returned>>

(* lines 142-168: one iteration of `for topic in self.topics`; line 157     *)
(* calls _calculate_average_interval, which reads the history without       *)
(* taking the lock (lines 172-204)                                          *)
get_status_data_loop(r) ==
    /\ pc[r] = "L142"
    /\ r_i[r] <= Len(topics)
    /\ status_data' = [status_data EXCEPT
                          ![r] = Append(@, status_entry(topics[r_i[r]], r_time[r]))]
    /\ r_i' = [r_i EXCEPT ![r] = @ + 1]
    /\ UNCHANGED <<registry, tracker, lock, clock, pc, wlocals, r_time, metrics, log,
                   nmsgs, returned>>

(* Mutant of get_status_data_unlock: after the topics of the registry, a     *)
(* topic the tracker knows and the registry does not gets an entry too      *)
get_status_data_unlock_tracked(r) ==
    /\ pc[r] = "L142"
    /\ r_i[r] > Len(topics)
    /\ lock' = Free
    /\ pc' = [pc EXCEPT ![r] = "L170"]
    /\ LET extra == DOMAIN topic_timestamps \ {topics[i] : i \in 1..Len(topics)}
       IN  status_data' =
               IF extra = {} THEN status_data
               ELSE [status_data EXCEPT
                        ![r] = Append(@, status_entry(CHOOSE c \in extra : TRUE, r_time[r]))]
    /\ UNCHANGED <<registry, tracker, clock, wlocals, r_time, r_i, metrics, log, nmsgs,
                   returned>>

(* the loop is exhausted: the with block ends and the lock is released *)
get_status_data_unlock(r) ==
    /\ pc[r] = "L142"
    /\ r_i[r] > Len(topics)
    /\ lock' = Free
    /\ pc' = [pc EXCEPT ![r] = "L170"]
    /\ UNCHANGED <<registry, tracker, clock, wlocals, rlocals, log, nmsgs, returned>>

(* line 170: return status_data *)
get_status_data_return(r) ==
    /\ pc[r] = "L170"
    /\ pc' = [pc EXCEPT ![r] = "idle"]
    /\ r_time' = [r_time EXCEPT ![r] = 0]
    /\ r_i' = [r_i EXCEPT ![r] = 0]
    /\ status_data' = [status_data EXCEPT ![r] = << >>]
    /\ returned' = [returned EXCEPT ![r] = status_data[r]]
    /\ UNCHANGED <<registry, tracker, lock, clock, wlocals, metrics, log, nmsgs>>

(* The statement thread t runs next prints or formats text: the print of   *)
(* line 118, or an iteration of the loop of get_status_data, which calls    *)
(* _calculate_average_interval (f-strings, lines 195-204), strftime (line   *)
(* 163) and str (line 164)                                                  *)
formats_next(t) ==
    \/ t \in Writers /\ pc[t] = "L118"
    \/ t \in Readers /\ pc[t] = "L142" /\ r_i[t] <= Len(topics)

get_status_data(r) ==
    \/ get_status_data_enter(r)
    \/ get_status_data_lock(r)
    \/ get_status_data_loop(r)
    \/ get_status_data_unlock(r)
    \/ get_status_data_return(r)

----------------------------------------------------------------------------
(* get_metrics: the /metrics route.  health_checker is set before the web   *)
(* server starts (lines 321-337), so line 230 never returns early.          *)

(* line 233: status_data = health_checker.get_status_data(), the call returning *)
get_metrics_status(r) ==
    /\ pc[r] = "L170"
    /\ pc' = [pc EXCEPT ![r] = "L234"]
    /\ r_time' = [r_time EXCEPT ![r] = 0]
    /\ r_i' = [r_i EXCEPT ![r] = 0]
    /\ status_data' = [status_data EXCEPT ![r] = << >>]
    /\ returned' = [returned EXCEPT ![r] = status_data[r]]
    /\ UNCHANGED <<registry, tracker, lock, clock, wlocals, metrics, log, nmsgs>>

(* lines 234-297: the header, current_time = datetime.now() (line 246, read *)
(* nowhere), the loop over status_data and the response                     *)
get_metrics_lines(r) ==
    /\ pc[r] = "L234"
    /\ \E t \in ClockValues \cup {clock} : now(t)
    /\ metrics' = [metrics EXCEPT ![r] = metrics_content(returned[r])]
    /\ pc' = [pc EXCEPT ![r] = "idle"]
    /\ UNCHANGED <<registry, tracker, lock, wlocals, r_time, r_i, status_data, log,
                   nmsgs, returned>>

get_metrics(r) ==
    \/ get_status_data_enter(r)
    \/ get_status_data_lock(r)
    \/ get_status_data_loop(r)
    \/ get_status_data_unlock(r)
    \/ get_metrics_status(r)
    \/ get_metrics_lines(r)

----------------------------------------------------------------------------
(* Spec: two ingestion threads and one query thread over the loaded         *)
(* registry, with a clock that never goes back.                             *)

(* The MQTT client thread delivers a message *)
Arrival(w, topic) ==
    /\ nmsgs < MaxMsgs
    /\ \E t \in ClockValues : on_message_enter(w, topic, t)

Next ==
    \/ \E w \in Writers, topic \in ArrivalTopics : Arrival(w, topic)
    \/ \E w \in Writers : on_message_step(w)
    \/ \E r \in Readers : get_status_data(r)

Spec == Init /\ [][Next]_vars

----------------------------------------------------------------------------
(* LongSpec: one ingestion thread delivers LongMaxMsgs messages on one      *)
(* topic, so that the history reaches and passes max_history_size.  The gap *)
(* before the k-th message is fixed (0, 0.5 s, 1 s, 0, ...): some           *)
(* neighbouring timestamps are equal and some differ.                       *)
LongGap(k) == (k % 3) * (SECOND \div 2)

LongArrival ==
    /\ nmsgs < LongMaxMsgs
    /\ on_message_enter("w1", TopicTemp, clock + LongGap(nmsgs))

LongNext ==
    \/ LongArrival
    \/ on_message_step("w1")

LongSpec == InitWith(DocTopics) /\ [][LongNext]_vars

----------------------------------------------------------------------------
(* AvgSpec: the tracker holds a drawn history for one topic (any order of   *)
(* timestamps: two ingestion threads can append out of order) and the query *)
(* thread runs get_status_data over it.                                     *)
AvgTimes == {0, 30 * SECOND, 60 * SECOND - 1, 60 * SECOND, 90 * SECOND,
             120 * SECOND, HOUR, DAY}

RECURSIVE SeqsUpTo(_, _)
SeqsUpTo(S, n) ==
    IF n = 0 THEN {<< >>}
    ELSE LET shorter == SeqsUpTo(S, n - 1)
         IN  shorter \cup {Append(h, x) : h \in {q \in shorter : Len(q) = n - 1}, x \in S}

(* The tracker after on_message calls stamped h[1], ..., h[Len(h)] on topic *)
TrackerAfter(topic, h) ==
    /\ topic_timestamps = IF h = << >> THEN EmptyDict ELSE Put(EmptyDict, topic, h[Len(h)])
    /\ topic_counters = IF h = << >> THEN EmptyDict ELSE Put(EmptyDict, topic, Len(h))
    /\ topic_message_history = IF h = << >> THEN EmptyDict ELSE Put(EmptyDict, topic, h)
    /\ log = [t \in ArrivalTopics |-> IF t = topic THEN h ELSE << >>]
    /\ nmsgs = Len(h)

AvgInit ==
    \E h \in SeqsUpTo(AvgTimes, AvgMaxLen) :
        /\ topics_file = DocTopics
        /\ topics = load_topics(DocTopics).topics
        /\ topic_descriptions = load_topics(DocTopics).topic_descriptions
        /\ topic_types = load_topics(DocTopics).topic_types
        /\ TrackerAfter(TopicTemp, h)
        /\ lock = Free
        /\ clock = DAY
        /\ pc = [t \in Threads |-> "idle"]
        /\ w_topic = [w \in Writers |-> NoTopic]
        /\ w_time = [w \in Writers |-> 0]
        /\ r_time = [r \in Readers |-> 0]
        /\ r_i = [r \in Readers |-> 0]
        /\ status_data = [r \in Readers |-> << >>]
        /\ metrics = [r \in Readers |-> NoResponse]
        /\ returned = [r \in Readers |-> << >>]

AvgNext == \E r \in Readers : get_status_data(r)

AvgSpec == AvgInit /\ [][AvgNext]_vars

----------------------------------------------------------------------------
(* MetricsSpec: the tracker holds a drawn history for one topic, one        *)
(* ingestion thread delivers further messages and the query thread serves   *)
(* /metrics.  At the start the clock is 30 s past the latest drawn time.    *)
MetricsTimes == {0, 80, 90 * SECOND, DAY}

MetricsInit ==
    \E h \in SeqsUpTo(MetricsTimes, AvgMaxLen) :
        /\ topics_file = DocTopics
        /\ topics = load_topics(DocTopics).topics
        /\ topic_descriptions = load_topics(DocTopics).topic_descriptions
        /\ topic_types = load_topics(DocTopics).topic_types
        /\ topic_timestamps = IF h = << >> THEN EmptyDict ELSE Put(EmptyDict, TopicTemp, h[Len(h)])
        /\ topic_counters = IF h = << >> THEN EmptyDict ELSE Put(EmptyDict, TopicTemp, Len(h))
        /\ topic_message_history = IF h = << >> THEN EmptyDict ELSE Put(EmptyDict, TopicTemp, h)
        /\ log = [t \in ArrivalTopics |-> IF t = TopicTemp THEN h ELSE << >>]
        /\ nmsgs = 0
        /\ lock = Free
        /\ clock = DAY + 30 * SECOND
        /\ pc = [t \in Threads |-> "idle"]
        /\ w_topic = [w \in Writers |-> NoTopic]
        /\ w_time = [w \in Writers |-> 0]
        /\ r_time = [r \in Readers |-> 0]
        /\ r_i = [r \in Readers |-> 0]
        /\ status_data = [r \in Readers |-> << >>]
        /\ metrics = [r \in Readers |-> NoResponse]
        /\ returned = [r \in Readers |-> << >>]

MetricsArrival(topic) ==
    /\ nmsgs < MetricsMaxMsgs
    /\ on_message_enter("w1", topic, clock)

MetricsNext ==
    \/ \E topic \in ArrivalTopics : MetricsArrival(topic)
    \/ on_message_step("w1")
    \/ \E r \in Readers : get_metrics(r)

MetricsSpec == MetricsInit /\ [][MetricsNext]_vars

----------------------------------------------------------------------------
(* LoadSpec: main constructs the MQTTHealthChecker from a drawn topics file *)
(* (line 321); when the constructor returns, the web server answers         *)
(* /api/status; when an exception leaves it, main ends and nothing runs.    *)
LoadItems == {StrItem(TopicTemp), DictItem(<< >>, DescDoor, << >>),
              DictItem(TopicDoor, DescDoor, TypeBinary), DictItem(TopicOther, << >>, << >>),
              OtherItem}

LoadDocuments ==
    {DocMissing, DocMalformed, DocNotObject, DocTopicsNull}
    \cup {[state |-> "ok", items |-> items] : items \in SeqsUpTo(LoadItems, LoadMaxItems)}

LoadInit ==
    \E doc \in LoadDocuments :
        /\ topics_file = doc
        /\ topics = load_topics(doc).topics
        /\ topic_descriptions = load_topics(doc).topic_descriptions
        /\ topic_types = load_topics(doc).topic_types
        /\ topic_timestamps = EmptyDict
        /\ topic_counters = EmptyDict
        /\ topic_message_history = EmptyDict
        /\ lock = Free
        /\ clock = 0
        /\ pc = [t \in Threads \cup {"main"} |->
                    IF t # "main" THEN "idle"
                    ELSE IF load_topics_raises(doc) = "none" THEN "serving" ELSE "raised"]
        /\ w_topic = [w \in Writers |-> NoTopic]
        /\ w_time = [w \in Writers |-> 0]
        /\ r_time = [r \in Readers |-> 0]
        /\ r_i = [r \in Readers |-> 0]
        /\ status_data = [r \in Readers |-> << >>]
        /\ metrics = [r \in Readers |-> NoResponse]
        /\ log = [t \in ArrivalTopics |-> << >>]
        /\ nmsgs = 0
        /\ returned = [r \in Readers |-> << >>]

LoadNext ==
    /\ pc["main"] = "serving"
    /\ \E r \in Readers : get_status_data(r)

LoadSpec == LoadInit /\ [][LoadNext]_vars

----------------------------------------------------------------------------
(* Properties *)

Min(a, b) == IF a < b THEN a ELSE b
Last(h) == h[Len(h)]

(* The recordings completed on a topic, oldest first *)
Completed(topic) == IF topic \in DOMAIN log THEN log[topic] ELSE << >>

(* The last min(k, 100) timestamps of the first k completed recordings *)
Window(L, k) == SubSeq(L, k - Min(k, 100) + 1, k)

(* Every status entry a query holds or has returned *)
Entries(r) == {status_data[r][i] : i \in 1..Len(status_data[r])}
              \cup {returned[r][i] : i \in 1..Len(returned[r])}

(* Entry e shows exactly the first k completed recordings of its topic *)
ReflectsRecordings(e, k) ==
    LET L == Completed(e.topic) IN
    /\ e.message_count = k
    /\ e.last_seen = IF k = 0 THEN Never ELSE strftime(L[k])
    /\ e.avg_interval =
           IF k = 0 THEN NoData
           ELSE calculate_average_interval([t \in {e.topic} |-> Window(L, k)], e.topic)

(* C1: every status entry of every query reflects a whole number k of       *)
(* completed recordings on its topic: message_count = k, last_seen is the   *)
(* k-th recording's timestamp (Never for k = 0) and avg_interval is that of *)
(* the min(k, 100) timestamps retained after the k-th; no entry shows a     *)
(* recording partly applied.                                                *)
C1_SnapshotIsWhole ==
    \A r \in Readers : \A e \in Entries(r) :
        \E k \in 0..Len(Completed(e.topic)) : ReflectsRecordings(e, k)

(* A query holds the lock with an entry showing one recording while an      *)
(* ingestion thread that has a second message for that topic waits for it.  *)
C1_Witness ==
    \E r \in Readers, w \in Writers :
        /\ lock = r
        /\ pc[w] = "L104"
        /\ Len(status_data[r]) > 0
        /\ status_data[r][1].message_count = 1
        /\ w_topic[w] = status_data[r][1].topic

(* Ingestion threads inside the with-block on `topic` that have run line 106 *)
Counted(topic) ==
    {w \in Writers : w_topic[w] = topic /\ pc[w] \in {"L109", "L112", "L115", "L117"}}

(* C2: a topic's counter equals the number of on_message calls completed on *)
(* it (plus the one call, if any, that has incremented it and not yet left  *)
(* the with-block), whatever the queries and the other topics do; a step    *)
(* raises a counter by exactly 1 or leaves it, never lowers or resets it.   *)
C2_CounterCounts ==
    /\ [](\A topic \in ArrivalTopics :
            /\ Get(topic_counters, topic, 0) = Len(log[topic]) + Cardinality(Counted(topic))
            /\ lock \notin Writers => Get(topic_counters, topic, 0) = Len(log[topic]))
    /\ [][\A topic \in ArrivalTopics :
            \/ Get(topic_counters', topic, 0) = Get(topic_counters, topic, 0)
            \/ /\ Get(topic_counters', topic, 0) = Get(topic_counters, topic, 0) + 1
               /\ \E w \in Writers : pc[w] = "L106" /\ w_topic[w] = topic]_vars

(* Two recordings are complete on one topic and one on no other, the lock is free *)
C2_Witness ==
    /\ lock = Free
    /\ Len(log[TopicTemp]) = 2
    /\ topic_counters[TopicTemp] = 2

History(topic) == Get(topic_message_history, topic, << >>)

(* C3: whenever the lock is not held, every topic's history has at most 100 *)
(* entries and exactly min(k, 100), k being the topic's counter.            *)
C3_HistoryLength ==
    lock = Free =>
        \A topic \in ArrivalTopics :
            /\ Len(History(topic)) <= 100
            /\ Len(History(topic)) = Min(Get(topic_counters, topic, 0), 100)

(* More than 100 recordings are complete and the lock is free *)
C3_Witness ==
    /\ lock = Free
    /\ Get(topic_counters, TopicTemp, 0) = 101
    /\ Len(History(TopicTemp)) = 100

(* C4: once more than 100 recordings are complete on a topic, its history   *)
(* is the timestamps of the last 100 of them, recordings k-99 .. k, in the  *)
(* order they were appended.                                                *)
C4_HistoryIsLast100 ==
    lock = Free =>
        \A topic \in ArrivalTopics :
            LET k == Len(log[topic]) IN
            k > 100 => History(topic) = [i \in 1..100 |-> log[topic][k - 100 + i]]

(* 102 recordings are complete: the two oldest timestamps (0 and 0.5 s) are *)
(* gone, the history starts with the third (1.5 s) and ends with the last.  *)
C4_Witness ==
    /\ lock = Free
    /\ Len(log[TopicTemp]) = 102
    /\ log[TopicTemp][2] # log[TopicTemp][3]
    /\ History(TopicTemp)[1] = log[TopicTemp][3]
    /\ History(TopicTemp)[100] = log[TopicTemp][102]

(* C5: whenever no ingestion thread holds the lock, a topic has a           *)
(* last-arrival timestamp exactly when its history is not empty, and the    *)
(* timestamp is the last entry of the history.                              *)
C5_LastArrivalIsLastEntry ==
    lock \notin Writers =>
        \A topic \in ArrivalTopics :
            /\ topic \in DOMAIN topic_timestamps <=> History(topic) # << >>
            /\ topic \in DOMAIN topic_timestamps =>
                   topic_timestamps[topic] = Last(History(topic))

(* Two ingestion threads have appended out of order: the last entry, which  *)
(* the last-arrival timestamp equals, is older than the one before it.      *)
C5_Witness ==
    /\ lock = Free
    /\ Len(History(TopicTemp)) = 2
    /\ History(TopicTemp)[2] < History(TopicTemp)[1]
    /\ topic_timestamps[TopicTemp] = History(TopicTemp)[2]

(* The entries a query has built while it holds the lock *)
Building(r) == IF pc[r] = "L142" THEN 1..Len(status_data[r]) ELSE {}

(* C6: a topic is classified never_seen when it has no last arrival,        *)
(* healthy when now - last_arrival is strictly less than one hour and       *)
(* unhealthy otherwise, so at exactly one hour it is unhealthy.             *)
C6_Classification ==
    \A r \in Readers : \A i \in Building(r) :
        LET e == status_data[r][i] IN
        e.status =
            IF e.topic \notin DOMAIN topic_timestamps THEN "never_seen"
            ELSE IF r_time[r] - topic_timestamps[e.topic] < 60 * MINUTE THEN "healthy"
            ELSE "unhealthy"

(* A query whose now is exactly one hour after the last arrival reports unhealthy *)
C6_Witness ==
    \E r \in Readers : \E i \in Building(r) :
        LET e == status_data[r][i] IN
        /\ e.topic \in DOMAIN topic_timestamps
        /\ r_time[r] - topic_timestamps[e.topic] = 60 * MINUTE
        /\ e.status = "unhealthy"

(* The parts of C7 that hold of the code, for the entry `new` a query is    *)
(* building for a topic and the entry `old` its previous query returned     *)
(* for it (recordings complete under the lock, so while the query holds the *)
(* lock message_count is the number of completed recordings).               *)
NeverSeenUntilRecorded(r, i) ==
    LET new == status_data[r][i] IN
    /\ new.status = "never_seen" <=> Completed(new.topic) = << >>
    /\ i <= Len(returned[r]) /\ returned[r][i].status # "never_seen"
           => new.status # "never_seen"

ExpiresWithoutRecording(r, i) ==
    LET new == status_data[r][i]
        L   == Completed(new.topic)
    IN  i <= Len(returned[r]) /\ Len(L) = returned[r][i].message_count /\ L # << >> =>
            /\ returned[r][i].status = "unhealthy" => new.status = "unhealthy"
            /\ new.status = "unhealthy" <=> r_time[r] - Last(L) >= 60 * MINUTE

(* A recording has completed since the previous query, which reported unhealthy *)
RecordedSinceUnhealthy(r, i) ==
    /\ i <= Len(returned[r])
    /\ returned[r][i].status = "unhealthy"
    /\ Len(Completed(status_data[r][i].topic)) > returned[r][i].message_count

(* C7 as amended: never_seen exactly until the first recording completes;   *)
(* with no new recording unhealthy stays unhealthy and healthy turns        *)
(* unhealthy once now is an hour past the last arrival; after a new         *)
(* recording an unhealthy topic is healthy again in the next query exactly  *)
(* when that query's now is less than an hour past the new recording's      *)
(* timestamp.                                                               *)
C7_StateMachine ==
    \A r \in Readers : \A i \in Building(r) :
        /\ NeverSeenUntilRecorded(r, i)
        /\ ExpiresWithoutRecording(r, i)
        /\ RecordedSinceUnhealthy(r, i) =>
               (status_data[r][i].status = "healthy"
                    <=> r_time[r] - Last(Completed(status_data[r][i].topic)) < 60 * MINUTE)

(* C7 as claimed: the same, but an unhealthy topic is healthy in the next   *)
(* query after a new recording, whenever that query is made.                *)
C7_AsClaimed ==
    \A r \in Readers : \A i \in Building(r) :
        /\ NeverSeenUntilRecorded(r, i)
        /\ ExpiresWithoutRecording(r, i)
        /\ RecordedSinceUnhealthy(r, i) => status_data[r][i].status = "healthy"

(* A topic reported unhealthy is reported healthy by the next query, a new  *)
(* recording having completed in between.                                   *)
C7_Witness ==
    \E r \in Readers : \E i \in Building(r) :
        /\ RecordedSinceUnhealthy(r, i)
        /\ status_data[r][i].status = "healthy"

(* C8: for a registered topic on which no recording has completed the query *)
(* returns status never_seen, avg_interval 'No data', message_count 0,      *)
(* last_seen 'Never' and time_since 'Never'.                                *)
C8_NeverSeenEntry ==
    \A r \in Readers : \A i \in Building(r) :
        LET e == status_data[r][i] IN
        Completed(e.topic) = << >> =>
            /\ e.status = "never_seen"
            /\ e.avg_interval = <<"N", "o", " ", "d", "a", "t", "a">>
            /\ e.message_count = 0
            /\ e.last_seen = <<"N", "e", "v", "e", "r">>
            /\ e.time_since = <<"N", "e", "v", "e", "r">>

(* One snapshot holds a topic with a completed recording and a never_seen one *)
C8_Witness ==
    \E r \in Readers :
        /\ pc[r] = "L142"
        /\ Len(status_data[r]) = 2
        /\ status_data[r][1].message_count > 0
        /\ Completed(status_data[r][2].topic) = << >>
        /\ status_data[r][2].status = "never_seen"

(* The history [t, t + 30 s, t + 90 s] *)
IsThirtyNinety(h) ==
    /\ Len(h) = 3
    /\ h[2] = h[1] + 30 * SECOND
    /\ h[3] = h[1] + 90 * SECOND

(* C9 as amended: for the history [t, t+30s, t+90s] the deltas are 30 s and *)
(* 60 s, their mean is 45 s and the average interval is "45.0s".            *)
C9_ThirtyNinetyIs45 ==
    \A r \in Readers : \A i \in Building(r) :
        LET e == status_data[r][i] IN
        IsThirtyNinety(History(e.topic)) => e.avg_interval = <<"4", "5", ".", "0", "s">>

(* C9 as claimed: the same history gives "30.0s" *)
C9_AsClaimed ==
    \A r \in Readers : \A i \in Building(r) :
        LET e == status_data[r][i] IN
        IsThirtyNinety(History(e.topic)) => e.avg_interval = <<"3", "0", ".", "0", "s">>

(* An entry is built for the history [30 s, 60 s, 120 s] *)
C9_Witness ==
    \E r \in Readers : \E i \in Building(r) :
        /\ History(status_data[r][i].topic) = <<30 * SECOND, 60 * SECOND, 120 * SECOND>>
        /\ IsThirtyNinety(History(status_data[r][i].topic))

(* The sum of the consecutive-pair deltas of h *)
RECURSIVE DeltaSum(_)
DeltaSum(h) == IF Len(h) < 2 THEN 0 ELSE (h[2] - h[1]) + DeltaSum(Tail(h))

(* The unit the claim gives a mean of total/n milliseconds *)
UnitOfMean(total, n) ==
    IF total < 60 * 1000 * n THEN "s"
    ELSE IF total < 3600 * 1000 * n THEN "m"
    ELSE IF total < 86400 * 1000 * n THEN "h"
    ELSE "d"

MsPerUnit(u) == CASE u = "s" -> 1000 [] u = "m" -> 60000 [] u = "h" -> 3600000
                  [] u = "d" -> 86400000

(* C10: the average interval is 'No data' for a history of 0 or 1 entries;  *)
(* for 2 or more it is the mean of all consecutive-pair deltas of the whole *)
(* history, to one decimal, in seconds for a mean < 60, minutes for         *)
(* 60 <= mean < 3600, hours for 3600 <= mean < 86400 and days otherwise.    *)
C10_UnitByHalfOpenRange ==
    \A r \in Readers : \A i \in Building(r) :
        LET e == status_data[r][i]
            h == History(e.topic)
            n == Len(h) - 1
            u == UnitOfMean(DeltaSum(h), n)
        IN  /\ Len(h) < 2 <=> e.avg_interval = NoData
            /\ Len(h) >= 2 =>
                   /\ Last(e.avg_interval) = u
                   /\ e.avg_interval = Format1f(DeltaSum(h), n * MsPerUnit(u)) \o <<u>>

(* The deltas 30 s and 90 s have a mean of exactly 60 s, rendered in minutes *)
C10_Witness ==
    \E r \in Readers : \E i \in Building(r) :
        /\ History(status_data[r][i].topic) = <<0, 30 * SECOND, 120 * SECOND>>
        /\ status_data[r][i].avg_interval = <<"1", ".", "0", "m">>

----------------------------------------------------------------------------
(* Properties of the metrics document *)

(* The sample lines of the document a query thread got last *)
Samples(r) == {metrics[r].lines[i] : i \in {j \in 1..Len(metrics[r].lines) :
                                              metrics[r].lines[j].kind = "sample"}}

(* The query thread is between two requests and the last one was answered:  *)
(* metrics[r] is the document made from returned[r]                         *)
Scraped(r) == pc[r] = "idle" /\ metrics[r].lines # << >>

(* The value of the first label of a label text: what stands between the    *)
(* first two double quotes                                                  *)
FirstQuote(text, from) == CHOOSE i \in from..Len(text) :
                              text[i] = "\"" /\ \A j \in from..(i - 1) : text[j] # "\""
FirstLabelValue(text) ==
    LET a == FirstQuote(text, 1)
        b == FirstQuote(text, a + 1)
    IN  SubSeq(text, a + 1, b - 1)

(* Each of '/', '-', '.', ':' and space replaced by an underscore *)
Underscored(text) ==
    [i \in 1..Len(text) |->
        IF text[i] = "/" \/ text[i] = "-" \/ text[i] = "." \/ text[i] = ":" \/ text[i] = " "
        THEN "_" ELSE text[i]]

(* C11 as claimed: in every metrics document the values of the topic label  *)
(* are the channel names with '/', '-', '.', ':' and space replaced by '_', *)
(* so that 'sensors/temp one' appears as 'sensors_temp_one' and never as    *)
(* written.                                                                 *)
C11_AsClaimed ==
    \A r \in Readers :
        Scraped(r) =>
            /\ {FirstLabelValue(l.labels) : l \in Samples(r)}
                   = {Underscored(returned[r][i].topic) : i \in 1..Len(returned[r])}
            /\ \A l \in Samples(r) : FirstLabelValue(l.labels) # TopicTemp

(* A document carries the topic label value 'sensors/temp one', as written  *)
(* in the registry, and none carries 'sensors_temp_one'.                    *)
C11_Witness ==
    \E r \in Readers :
        /\ Scraped(r)
        /\ \E l \in Samples(r) :
               FirstLabelValue(l.labels)
                   = <<"s", "e", "n", "s", "o", "r", "s", "/", "t", "e", "m", "p", " ", "o", "n", "e">>
        /\ \A l \in Samples(r) :
               FirstLabelValue(l.labels)
                   # <<"s", "e", "n", "s", "o", "r", "s", "_", "t", "e", "m", "p", "_", "o", "n", "e">>

(* The samples of metric `name` a document carries for entry e *)
SamplesOf(r, e, name) ==
    {l \in Samples(r) : l.name = name /\ l.labels = labels(e.topic, e.display_name, e.type)}

(* C12: in every metrics document, a never_seen channel has the samples     *)
(* last_seen_timestamp 0, message_count 0 and healthy 0; a channel with     *)
(* fewer than 2 history entries (fewer than 2 recordings counted) has no    *)
(* avg_interval_seconds sample; and the healthy sample is 1 exactly when    *)
(* the status the same scrape got for the channel is healthy.               *)
C12_NeverSeenAndHealthySamples ==
    \A r \in Readers :
        Scraped(r) =>
            \A i \in 1..Len(returned[r]) :
                LET e == returned[r][i] IN
                /\ e.status = "never_seen" =>
                       /\ {l.value : l \in SamplesOf(r, e, "mqtt_topic_last_seen_timestamp")} = {0}
                       /\ {l.value : l \in SamplesOf(r, e, "mqtt_topic_message_count")} = {0}
                       /\ {l.value : l \in SamplesOf(r, e, "mqtt_topic_healthy")} = {0}
                /\ e.message_count < 2 => SamplesOf(r, e, "mqtt_topic_avg_interval_seconds") = {}
                /\ {l.value : l \in SamplesOf(r, e, "mqtt_topic_healthy")}
                       = {IF e.status = "healthy" THEN 1 ELSE 0}

(* One document holds a healthy channel with an average sample and a        *)
(* never_seen channel.                                                      *)
C12_Witness ==
    \E r \in Readers :
        /\ Scraped(r)
        /\ \E i, j \in 1..Len(returned[r]) :
               /\ returned[r][i].status = "healthy"
               /\ SamplesOf(r, returned[r][i], "mqtt_topic_avg_interval_seconds") # {}
               /\ returned[r][j].status = "never_seen"
               /\ SamplesOf(r, returned[r][j], "mqtt_topic_healthy") # {}

----------------------------------------------------------------------------
(* Properties of the registry *)

(* The items the claim keeps: bare strings and objects with a non-empty     *)
(* 'topic', in document order                                               *)
RECURSIVE KeptTopics(_)
KeptTopics(items) ==
    IF items = << >> THEN << >>
    ELSE LET item == Head(items)
             rest == KeptTopics(Tail(items))
         IN  IF item.kind = "str" \/ (item.kind = "dict" /\ item.topic # << >>)
             THEN <<item.topic>> \o rest
             ELSE rest

(* C13 as claimed: whatever the topics file holds, no exception leaves      *)
(* load_topics and the process serves; a file that is absent or cannot be   *)
(* read as the configuration document gives the empty channel list, and a   *)
(* well-formed one gives its bare strings and its objects with a non-empty  *)
(* 'topic', in document order.                                              *)
C13_AsClaimed ==
    /\ pc["main"] = "serving"
    /\ topics_file.state # "ok" => topics = << >>
    /\ topics_file.state = "ok" => topics = KeptTopics(topics_file.items)

(* The topics file is a JSON document that is not an object and the         *)
(* constructor has raised                                                   *)
C13_Witness ==
    /\ topics_file.state = "not_object"
    /\ pc["main"] = "raised"

----------------------------------------------------------------------------
(* Properties of the query path *)

(* Every conversion get_metrics applies to entry e succeeds *)
Converts(e) ==
    /\ e.last_seen # Never => strptime(e.last_seen).ok
    /\ e.avg_interval # NoData /\ e.avg_interval # << >>
           /\ e.avg_interval[Len(e.avg_interval)] \in {"s", "m", "h", "d"}
           => float(but_last(e.avg_interval)).ok

(* C14: no query raises: every /metrics request is answered with a document *)
(* and every entry get_status_data builds or returns is one whose last_seen *)
(* and avg_interval texts get_metrics can read back, whatever the order of  *)
(* the recorded timestamps and the characters of the channel names.         *)
C14_NoException ==
    \A r \in Readers :
        /\ ~metrics[r].raised
        /\ \A e \in Entries(r) : Converts(e)
        /\ pc[r] = "idle" /\ returned[r] # << >> => Len(metrics[r].lines) >= 8 + 3 * Len(returned[r])

(* A document was made from an entry whose history is out of order (the     *)
(* average is negative) and whose channel name holds '/' and a space.       *)
C14_Witness ==
    \E r \in Readers :
        /\ Scraped(r)
        /\ returned[r][1].topic = TopicTemp
        /\ returned[r][1].avg_interval[1] = "-"
        /\ returned[r][1].last_seen # Never
        /\ SamplesOf(r, returned[r][1], "mqtt_topic_last_seen_timestamp") # {}

----------------------------------------------------------------------------
(* LiveSpec: the two ingestion threads and the query thread under a fair    *)
(* scheduler.  A thread that has started a call keeps being scheduled (weak *)
(* fairness of its statements), and a thread waiting for the lock gets it   *)
(* if the lock is released again and again (strong fairness of the          *)
(* acquisition).  No call has to start: only started calls must finish.     *)
(* Times play no part, every call reads the same time of day.               *)

LiveMaxMsgs == 3

LiveInit == InitWith(DocTopics)

LiveArrival(w, topic) ==
    /\ nmsgs < LiveMaxMsgs
    /\ on_message_enter(w, topic, clock)

LiveRead(r) ==
    /\ get_status_data_enter(r)
    /\ clock' = clock

(* the statements of a started get_status_data call *)
get_status_data_run(r) ==
    \/ get_status_data_lock(r)
    \/ get_status_data_loop(r)
    \/ get_status_data_unlock(r)
    \/ get_status_data_return(r)

LiveNext ==
    \/ \E w \in Writers, topic \in ArrivalTopics : LiveArrival(w, topic)
    \/ \E w \in Writers : on_message_step(w)
    \/ \E r \in Readers : LiveRead(r)
    \/ \E r \in Readers : get_status_data_run(r)

LiveFairness ==
    /\ \A w \in Writers : WF_vars(on_message_step(w)) /\ SF_vars(on_message_lock(w))
    /\ \A r \in Readers : WF_vars(get_status_data_run(r)) /\ SF_vars(get_status_data_lock(r))

LiveSpec == LiveInit /\ [][LiveNext]_vars /\ LiveFairness

----------------------------------------------------------------------------
(* Properties of the lock *)

(* C15 as claimed: no thread prints or formats while it holds the lock: the *)
(* print of on_message and the timestamp, duration and average-interval     *)
(* formatting of get_status_data all run outside the with-block.            *)
C15_AsClaimed ==
    \A t \in Threads : formats_next(t) => lock # t

(* The query thread holds the lock and its next statement formats the       *)
(* timestamp of a topic that has one                                        *)
C15_Witness ==
    \E r \in Readers :
        /\ lock = r
        /\ formats_next(r)
        /\ topics[r_i[r]] \in DOMAIN topic_timestamps

(* C16: under fair scheduling every started on_message call and every      *)
(* started get_status_data call eventually completes with the lock released *)
(* by it: no call waits forever, and get_status_data calling                *)
(* _calculate_average_interval while holding the lock does not block.       *)
C16_EveryCallCompletes ==
    \A t \in Threads : (pc[t] # "idle") ~> (pc[t] = "idle" /\ lock # t)

(* The query thread holds the lock, has already computed the average        *)
(* interval of a topic with a history, and an ingestion thread waits for    *)
(* the lock                                                                 *)
C16_Witness ==
    \E r \in Readers, w \in Writers :
        /\ lock = r
        /\ pc[r] = "L142"
        /\ r_i[r] > 1
        /\ topics[r_i[r] - 1] \in DOMAIN topic_message_history
        /\ pc[w] = "L104"

----------------------------------------------------------------------------
(* Properties of the elapsed time *)

(* C17 as claimed: in every status entry time_since is 'Never' exactly when *)
(* last_seen is 'Never'; a topic with a recorded arrival always gets a      *)
(* duration, also when the query's time equals the last arrival's.          *)
C17_AsClaimed ==
    \A r \in Readers : \A e \in Entries(r) :
        (e.time_since = Never) <=> (e.last_seen = Never)

(* A returned entry shows a last arrival and no elapsed time *)
C17_Witness ==
    \E r \in Readers : \E i \in 1..Len(returned[r]) :
        /\ returned[r][i].last_seen # Never
        /\ returned[r][i].time_since = Never
        /\ returned[r][i].message_count > 0

----------------------------------------------------------------------------
(* Frame properties *)

(* C18: a status read changes no tracker state: every step of               *)
(* get_status_data and of get_metrics leaves each topic's last arrival,     *)
(* counter and history as they were, and gives no state to a topic that had *)
(* none.                                                                    *)
C18_ReadLeavesTracker ==
    [][\A r \in Readers :
           get_metrics(r) =>
               /\ topic_timestamps' = topic_timestamps
               /\ topic_counters' = topic_counters
               /\ topic_message_history' = topic_message_history
               /\ DOMAIN topic_message_history' = DOMAIN topic_message_history]_vars

(* A scrape has been answered with an entry for a topic that never had an   *)
(* arrival and still has no state, next to a topic that has some            *)
C18_Witness ==
    \E r \in Readers : \E i \in 1..Len(returned[r]) :
        /\ Scraped(r)
        /\ returned[r][i].last_seen = Never
        /\ returned[r][i].topic \notin DOMAIN topic_timestamps
        /\ returned[r][i].topic \notin DOMAIN topic_counters
        /\ returned[r][i].topic \notin DOMAIN topic_message_history
        /\ topic_message_history # EmptyDict

(* What the tracker holds for topic c: for each of the three dicts, whether *)
(* c is a key and the value under it                                        *)
ArrivalState(c) ==
    << c \in DOMAIN topic_timestamps, Get(topic_timestamps, c, 0),
       c \in DOMAIN topic_counters, Get(topic_counters, c, 0),
       c \in DOMAIN topic_message_history, Get(topic_message_history, c, << >>) >>

(* Every topic of the registry or of a message *)
AllTopics == ArrivalTopics \cup {topics[i] : i \in 1..Len(topics)}

(* C19: a recording on topic c changes only c's last arrival, counter and   *)
(* history: every statement of on_message leaves the state of every other   *)
(* topic and the registry (topic list, display names, types) unchanged, and *)
(* the statements before the lock change no tracker state at all.           *)
C19_RecordingTouchesOnlyItsTopic ==
    [][\A w \in Writers :
           /\ on_message_step(w) =>
                  /\ registry' = registry
                  /\ \A c \in AllTopics \ {w_topic[w]} : ArrivalState(c)' = ArrivalState(c)
                  /\ DOMAIN topic_timestamps' \subseteq DOMAIN topic_timestamps \cup {w_topic[w]}
                  /\ DOMAIN topic_counters' \subseteq DOMAIN topic_counters \cup {w_topic[w]}
                  /\ DOMAIN topic_message_history'
                         \subseteq DOMAIN topic_message_history \cup {w_topic[w]}
           /\ (\E topic \in ArrivalTopics, t \in ClockValues : on_message_enter(w, topic, t))
                  => registry' = registry /\ tracker' = tracker]_vars

(* A recording on one topic has completed while another topic keeps the     *)
(* state of its own earlier recording                                       *)
C19_Witness ==
    \E w \in Writers, c \in AllTopics :
        /\ pc[w] = "L118"
        /\ c # w_topic[w]
        /\ Get(topic_counters, w_topic[w], 0) = 1
        /\ Get(topic_counters, c, 0) = 1
        /\ Get(topic_message_history, c, << >>) # << >>

----------------------------------------------------------------------------
(* Properties of the query's time *)

(* C20 as claimed: whenever get_status_data compares its time with the last *)
(* arrival of a topic (line 145), its time is not earlier than that arrival *)
(* and the elapsed time is not negative, whatever on_message calls run      *)
(* concurrently.                                                            *)
C20_AsClaimed ==
    \A r \in Readers :
        (/\ pc[r] = "L142"
         /\ r_i[r] <= Len(topics)
         /\ topics[r_i[r]] \in DOMAIN topic_timestamps)
        => r_time[r] >= topic_timestamps[topics[r_i[r]]]

(* A returned entry of a healthy topic shows a negative elapsed time        *)
(* ("-1 day, 23:59:59")                                                     *)
C20_Witness ==
    \E r \in Readers : \E i \in 1..Len(returned[r]) :
        /\ returned[r][i].time_since # Never
        /\ Head(returned[r][i].time_since) = "-"
        /\ returned[r][i].status = "healthy"

----------------------------------------------------------------------------
(* Properties of the order of a history *)

(* C21 as claimed: with several concurrent ingestion threads and a clock    *)
(* that never goes back, the history of every topic is in non-decreasing    *)
(* order of timestamps (so no difference of neighbours, and no mean, is     *)
(* negative), and the last arrival of the topic is not earlier than any     *)
(* timestamp of its history.                                                *)
C21_AsClaimed ==
    \A c \in DOMAIN topic_message_history :
        LET h == topic_message_history[c]
        IN  /\ \A i \in 1..Len(h) : \A j \in i..Len(h) : h[i] <= h[j]
            /\ c \in DOMAIN topic_timestamps
                   => \A i \in 1..Len(h) : h[i] <= topic_timestamps[c]

(* Both ingestion threads have finished, the history of a topic goes back   *)
(* in time, its last arrival is the earlier timestamp, and a status entry   *)
(* returned for it shows a negative average interval                        *)
C21_Witness ==
    \E c \in DOMAIN topic_message_history :
        LET h == topic_message_history[c]
        IN  /\ \A w \in Writers : pc[w] = "idle"
            /\ Len(h) = 2
            /\ h[1] > h[2]
            /\ topic_timestamps[c] = h[2]
            /\ \E r \in Readers : \E i \in 1..Len(returned[r]) :
                   /\ returned[r][i].topic = c
                   /\ Head(returned[r][i].avg_interval) = "-"

----------------------------------------------------------------------------
(* Properties of the average-interval sample *)

(* Entry e of the last answer of r still describes the tracker: no          *)
(* recording of its topic was counted since the read, so the history the    *)
(* read saw is the history of the topic now                                 *)
StillCurrent(e) == e.message_count = Get(topic_counters, e.topic, 0)

AvgSamples(r, e) == SamplesOf(r, e, "mqtt_topic_avg_interval_seconds")

(* C22 as claimed: whenever the history of a channel has at least 2 entries *)
(* and the mean of its deltas is strictly positive, the document of the     *)
(* scrape has an avg_interval_seconds sample for the channel.               *)
C22_AsClaimed ==
    \A r \in Readers :
        Scraped(r) =>
            \A i \in 1..Len(returned[r]) :
                LET e == returned[r][i]
                    h == History(e.topic)
                IN  (StillCurrent(e) /\ Len(h) >= 2 /\ DeltaSum(h) > 0)
                        => AvgSamples(r, e) # {}

(* C22: the sample is made from the one-decimal text of the average, not    *)
(* from the mean.  It is present only when the history has at least 2       *)
(* entries and a strictly positive mean; it is present whenever the mean is *)
(* above 0.05 s, and absent whenever the mean is below 0.05 s, where the    *)
(* text reads "0.0s".                                                       *)
C22_EmittedWhenTextIsPositive ==
    \A r \in Readers :
        Scraped(r) =>
            \A i \in 1..Len(returned[r]) :
                LET e == returned[r][i]
                    h == History(e.topic)
                    n == Len(h) - 1
                IN  StillCurrent(e) =>
                        /\ AvgSamples(r, e) # {} => Len(h) >= 2 /\ DeltaSum(h) > 0
                        /\ (Len(h) >= 2 /\ 20 * DeltaSum(h) > n * SECOND)
                               => AvgSamples(r, e) # {}
                        /\ (Len(h) >= 2 /\ 20 * DeltaSum(h) < n * SECOND)
                               => AvgSamples(r, e) = {}

(* A scrape left out the sample of a channel whose history of 3 entries has *)
(* a positive mean (0.04 s), next to its other samples                      *)
C22_Witness ==
    \E r \in Readers : \E i \in 1..Len(returned[r]) :
        LET e == returned[r][i]
            h == History(e.topic)
        IN  /\ Scraped(r)
            /\ StillCurrent(e)
            /\ Len(h) = 3
            /\ DeltaSum(h) = 80
            /\ AvgSamples(r, e) = {}
            /\ SamplesOf(r, e, "mqtt_topic_message_count") # {}

----------------------------------------------------------------------------
(* Properties of the entries of an answer *)

(* The topics of the registry *)
Registered == {topics[i] : i \in 1..Len(topics)}

(* data has one entry for each of the first k topics of the registry, in    *)
(* the order of the registry                                                *)
FollowsRegistry(data, k) ==
    /\ Len(data) = k
    /\ \A i \in 1..k : data[i].topic = topics[i]

(* C23: get_status_data returns exactly one entry per entry of the loaded   *)
(* topic list, in registry order, whatever has arrived, and the metrics     *)
(* document has samples for these entries only.  An arrival on a topic that *)
(* is not in the registry is recorded in the tracker, gets no entry and no  *)
(* sample, and none of its statements changes the status entry a read at    *)
(* the current time makes for a registered topic, from which alone the      *)
(* metrics lines of the topic are made.                                     *)
C23_OneEntryPerRegisteredTopic ==
    /\ [](\A r \in Readers :
            /\ pc[r] = "L142" => FollowsRegistry(status_data[r], r_i[r] - 1)
            /\ pc[r] = "L170" => FollowsRegistry(status_data[r], Len(topics))
            /\ (pc[r] = "L234" \/ Scraped(r)) => FollowsRegistry(returned[r], Len(topics))
            /\ Scraped(r) =>
                   /\ metrics[r] = metrics_content(returned[r])
                   /\ \A l \in Samples(r) : FirstLabelValue(l.labels) \in Registered
                   /\ \A i \in 1..Len(returned[r]) :
                          SamplesOf(r, returned[r][i], "mqtt_topic_message_count") # {})
    /\ [](\A c \in ArrivalTopics \ Registered :
            Len(log[c]) > 0 =>
                /\ c \in DOMAIN topic_timestamps
                /\ Get(topic_counters, c, 0) >= Len(log[c])
                /\ Get(topic_message_history, c, << >>) # << >>)
    /\ [][\A w \in Writers :
              (on_message_step(w) /\ w_topic[w] \notin Registered) =>
                  \A c \in Registered :
                      status_entry(c, clock)' = status_entry(c, clock)]_vars

(* A message on 'x/y', which the registry does not list, has been recorded, *)
(* and a scrape answered after it has an entry for each registered topic    *)
(* and none for 'x/y'                                                       *)
C23_Witness ==
    \E r \in Readers :
        /\ Scraped(r)
        /\ TopicOther \notin Registered
        /\ Len(log[TopicOther]) = 1
        /\ Get(topic_counters, TopicOther, 0) = 1
        /\ r_time[r] = 0
        /\ \A i \in 1..Len(returned[r]) : returned[r][i].topic # TopicOther
        /\ Len(returned[r]) = Len(topics)
        /\ Len(topics) = 2

====
